---------------------------- MODULE Spec2Model ----------------------------
(***************************************************************************)
(* Model of villager.tsx: the villager generator (dice, table lookups,     *)
(* gear template expansion, record construction) and the program entry     *)
(* that parses the count argument, generates the records and renders the   *)
(* cards.                                                                  *)
(*                                                                         *)
(* Conventions.  A JavaScript string is a sequence of one-character        *)
(* strings.  A JavaScript number is an integer or NaN, and NaN is an       *)
(* integer no computation of the program produces.  JavaScript undefined   *)
(* is Undefined.  JavaScript indexes from 0, TLA+ from 1: At does the      *)
(* shift.  Every operation that calls Math.random takes the       *)
(* random source and returns [value, random]: its result and the source    *)
(* as the calls left it.                                                   *)
(***************************************************************************)
EXTENDS Integers, Sequences, FiniteSets, TLC

VARIABLES
    pc,          \* position of the entry script / of the function under study
    argv2,       \* process.argv[2]: a string, or Undefined when absent
    count,       \* const count (line 399)
    villagers,   \* const villagers (line 400), filled one callback at a time
    cards,       \* per rendered card, its gearItems (line 289)
    random,      \* the state of Math.random
    args,        \* arguments of the function under study
    result       \* what the function under study returned

vars == <<pc, argv2, count, villagers, cards, random, args, result>>

---------------------------------------------------------------------------
(* JavaScript values *)

NaN == -2147483647
Undefined == <<"undefined">>

IsNum(x) == x # NaN

\* x < y, x <= y, x >= y on numbers: false as soon as one side is NaN.
NumLt(x, y) == IsNum(x) /\ IsNum(y) /\ x < y
NumLe(x, y) == IsNum(x) /\ IsNum(y) /\ x <= y
NumGe(x, y) == IsNum(x) /\ IsNum(y) /\ x >= y

\* seq[i] of JavaScript: undefined outside the sequence.
At(seq, i) == IF IsNum(i) /\ i >= 0 /\ i < Len(seq) THEN seq[i + 1] ELSE Undefined

\* seq[i] where a number is expected: undefined behaves as NaN in the
\* comparisons and the arithmetic that follow.
NumAt(seq, i) == IF IsNum(i) /\ i >= 0 /\ i < Len(seq) THEN seq[i + 1] ELSE NaN

---------------------------------------------------------------------------
(* Strings *)

Digits == <<"0", "1", "2", "3", "4", "5", "6", "7", "8", "9">>

IsDigit(c) == \E d \in 1..10 : Digits[d] = c

DigitValue(c) == (CHOOSE d \in 1..10 : Digits[d] = c) - 1

\* A character is a string of one character; a character that a string of
\* this language cannot hold is written by its code point.
Backquote == "U+0060"

\* White space and line terminators as String.prototype.trim and parseInt
\* see them: tab, line feed, vertical tab, form feed, carriage return, space,
\* no-break space, U+1680, U+2000 to U+200A, U+2028, U+2029, U+202F, U+205F,
\* U+3000 and U+FEFF.
IsSpace(c) ==
    c \in {" ", "\t", "\n", "\r", "\f", "", " ", " ", "﻿",
          "U+2000", "U+2001", "U+2002", "U+2003", "U+2004", "U+2005",
          "U+2006", "U+2007", "U+2008", "U+2009", "U+200A", "U+2028",
          "U+2029", "U+202F", "U+205F", "U+3000"}

RECURSIVE TrimStart(_)
TrimStart(s) ==
    IF s # <<>> /\ IsSpace(Head(s)) THEN TrimStart(Tail(s)) ELSE s

RECURSIVE TrimEnd(_)
TrimEnd(s) ==
    IF s # <<>> /\ IsSpace(s[Len(s)]) THEN TrimEnd(SubSeq(s, 1, Len(s) - 1)) ELSE s

\* String.prototype.trim
Trim(s) == TrimEnd(TrimStart(s))

\* Whether pat occurs in s at (1-based) position i.
OccursAt(s, pat, i) ==
    /\ i >= 1
    /\ i + Len(pat) - 1 <= Len(s)
    /\ SubSeq(s, i, i + Len(pat) - 1) = pat

\* String.prototype.indexOf, 1-based; 0 when pat does not occur.
IndexOf(s, pat) ==
    IF \E i \in 1..(Len(s) + 1) : OccursAt(s, pat, i)
    THEN CHOOSE i \in 1..(Len(s) + 1) :
            /\ OccursAt(s, pat, i)
            /\ \A j \in 1..(i - 1) : ~OccursAt(s, pat, j)
    ELSE 0

\* String.prototype.split with a one-character separator.
RECURSIVE Split(_, _)
Split(s, sep) ==
    LET i == IndexOf(s, <<sep>>) IN
    IF i = 0 THEN <<s>>
    ELSE <<SubSeq(s, 1, i - 1)>> \o Split(SubSeq(s, i + 1, Len(s)), sep)

\* The value of a string of decimal digits.
RECURSIVE DigitsValue(_)
DigitsValue(s) ==
    IF s = <<>> THEN 0
    ELSE 10 * DigitsValue(SubSeq(s, 1, Len(s) - 1)) + DigitValue(s[Len(s)])

\* Number(s) on the strings the program converts: decimal digits with
\* optional surrounding white space give their value, the empty string 0,
\* any other text NaN.
Number(s) ==
    LET t == Trim(s) IN
    IF \A i \in 1..Len(t) : IsDigit(t[i]) THEN DigitsValue(t) ELSE NaN

\* String(n) of a number: decimal digits, a leading "-" when negative.
RECURSIVE NatToString(_)
NatToString(n) ==
    IF n < 10 THEN <<Digits[n + 1]>>
    ELSE NatToString(n \div 10) \o <<Digits[(n % 10) + 1]>>

String(n) ==
    IF ~IsNum(n) THEN <<"N","a","N">>
    ELSE IF n < 0 THEN <<"-">> \o NatToString(-n)
    ELSE NatToString(n)

\* The longest prefix of s made of decimal digits.
RECURSIVE DigitPrefix(_)
DigitPrefix(s) ==
    IF s # <<>> /\ IsDigit(Head(s)) THEN <<Head(s)>> \o DigitPrefix(Tail(s)) ELSE <<>>

\* parseInt(s, 10): leading white space, an optional sign, then the longest
\* run of digits; NaN when there is no digit there.
parseInt(s) ==
    LET t == TrimStart(s)
        signed == t # <<>> /\ Head(t) \in {"+", "-"}
        body == IF signed THEN Tail(t) ELSE t
        ds == DigitPrefix(body)
    IN  IF ds = <<>> THEN NaN
        ELSE IF signed /\ Head(t) = "-" THEN -DigitsValue(ds)
        ELSE DigitsValue(ds)

\* String.prototype.toLowerCase on the letters of the tables.
UpperCase == <<"A","B","C","D","E","F","G","H","I","J","K","L","M","N","O","P","Q","R","S","T","U","V","W","X","Y","Z">>
LowerCase == <<"a","b","c","d","e","f","g","h","i","j","k","l","m","n","o","p","q","r","s","t","u","v","w","x","y","z">>

LowerChar(c) ==
    IF \E k \in 1..26 : UpperCase[k] = c
    THEN LowerCase[CHOOSE k \in 1..26 : UpperCase[k] = c]
    ELSE c

toLowerCase(s) == [i \in 1..Len(s) |-> LowerChar(s[i])]

---------------------------------------------------------------------------
(* The random source *)

\* Math.random() returns a double in [0, 1): here a numerator u in
\* 0..RandomDen-1, standing for the double u / RandomDen.  RandomDen is a
\* power of two, so that u / RandomDen and its product with the sides of a
\* die are doubles without rounding, and the floor of the product of doubles
\* is the integer quotient of u * sides by RandomDen.
RandomDen == 1024

\* The generator behind Math.random is a hidden state that every call
\* advances.  The source is [forced, seed]: the outcomes of the next calls
\* when the environment has fixed them (forced, used where every outcome of
\* a draw is enumerated), and the generator state that produces the
\* outcomes after those.  The generator is a Lehmer generator modulo the
\* prime 65521; its state stays in 1..65520.
NextSeed(s) == (s * 30001) % 65521

MathRandom(rs) ==
    IF rs.forced # <<>>
    THEN [value |-> Head(rs.forced), random |-> [rs EXCEPT !.forced = Tail(@)]]
    ELSE LET s == NextSeed(rs.seed) IN
         [value |-> (s * RandomDen) \div 65521, random |-> [rs EXCEPT !.seed = s]]

---------------------------------------------------------------------------
(* Dice *)

\* Face without the "+ 1": faces run from 0.
FaceFromZero(u, sides) == IF IsNum(sides) THEN (u * sides) \div RandomDen ELSE NaN

\* Math.floor(Math.random() * sides) + 1, for the outcome u of Math.random.
Face(u, sides) == IF IsNum(sides) THEN (u * sides) \div RandomDen + 1 ELSE NaN

\* The loop of roll: for (let i = 0; i < count; i++) sum += <face>
RECURSIVE rollLoop(_, _, _, _, _)
rollLoop(i, n, sides, sum, rs) ==
    IF ~NumLt(i, n) THEN [value |-> sum, random |-> rs]
    ELSE LET r == MathRandom(rs)
             face == Face(r.value, sides)
             next == IF IsNum(sum) /\ IsNum(face) THEN sum + face ELSE NaN
         IN  rollLoop(i + 1, n, sides, next, r.random)

\* .map(Number) on the parts of a split.
MapNumber(parts) == [k \in 1..Len(parts) |-> Number(parts[k])]

\* const [count, sides] = <the numbers>, then the loop.
rollParsed(nums, rs) == rollLoop(0, NumAt(nums, 0), NumAt(nums, 1), 0, rs)

\* roll(dice): dice is the text "<count>d<sides>".
roll(dice, rs) == rollParsed(MapNumber(Split(dice, "d")), rs)

\* Consecutive calls of roll, one per text of dice, left to right: the
\* results in order, and the source after the last.
RECURSIVE RollEach(_, _)
RollEach(dice, rs) ==
    IF dice = <<>> THEN [value |-> <<>>, random |-> rs]
    ELSE LET prev == RollEach(SubSeq(dice, 1, Len(dice) - 1), rs)
             r == roll(dice[Len(dice)], prev.random)
         IN  [value |-> Append(prev.value, r.value), random |-> r.random]

\* getMod with "<" where the code has "<=".
getModStrict(score) ==
    IF score = 3 THEN -3
    ELSE IF score < 5 THEN -2
    ELSE IF score < 8 THEN -1
    ELSE IF score < 12 THEN 0
    ELSE IF score < 15 THEN 1
    ELSE IF score < 17 THEN 2
    ELSE 3

getMod(score) ==
    IF score = 3 THEN -3
    ELSE IF score <= 5 THEN -2
    ELSE IF score <= 8 THEN -1
    ELSE IF score <= 12 THEN 0
    ELSE IF score <= 15 THEN 1
    ELSE IF score <= 17 THEN 2
    ELSE 3

---------------------------------------------------------------------------
(* The reference tables *)

\* The four files sit beside the script and are read once at start-up.
\* Their text below follows the layout the script relies on: a header
\* line, then one row per line, columns separated by tabs.  occupations:
\* range, name, gear template, species (empty or missing for Human);
\* names: die, three common columns, then Elf, Dwarf, Halfling; looks: die,
\* face, eyes, hair, body, clothing; bonds: template, four details.

\* occupations.tsv: the text of the file, one line of the table per line below.
occupationsTsv ==
    \* d100 | Occupation | Gear | Species
       <<"d","1","0","0","\t","O","c","c","u","p","a","t","i","o","n","\t","G","e","a","r","\t","S","p","e","c","i","e","s","\n">>
    \* 1-4 | Alchemist | oil flask, {1d4} vials | 
    \o <<"1","-","4","\t","A","l","c","h","e","m","i","s","t","\t","o","i","l"," ","f","l","a","s","k",","," ","{","1","d","4","}"," ","v","i","a","l","s","\t","\n">>
    \* 5-9 | Animal trainer | {animal_trainer_gear}
    \o <<"5","-","9","\t","A","n","i","m","a","l"," ","t","r","a","i","n","e","r","\t","{","a","n","i","m","a","l","_","t","r","a","i","n","e","r","_","g","e","a","r","}","\n">>
    \* 9-12 | Barber | razor, {2d6} coins | Human
    \o <<"9","-","1","2","\t","B","a","r","b","e","r","\t","r","a","z","o","r",","," ","{","2","d","6","}"," ","c","o","i","n","s","\t","H","u","m","a","n","\n">>
    \* 13-20 | Farmer | {crop} seed, hoe (1 wt) | Human
    \o <<"1","3","-","2","0","\t","F","a","r","m","e","r","\t","{","c","r","o","p","}"," ","s","e","e","d",","," ","h","o","e"," ","(","1"," ","w","t",")","\t","H","u","m","a","n","\n">>
    \* 21-30 | Minstrel | {instrument}, cap | Gnome
    \o <<"2","1","-","3","0","\t","M","i","n","s","t","r","e","l","\t","{","i","n","s","t","r","u","m","e","n","t","}",","," ","c","a","p","\t","G","n","o","m","e","\n">>
    \* 31-41 | Miner | pick (1 wt), lantern | Dwarf
    \o <<"3","1","-","4","1","\t","M","i","n","e","r","\t","p","i","c","k"," ","(","1"," ","w","t",")",","," ","l","a","n","t","e","r","n","\t","D","w","a","r","f","\n">>
    \* 42 | Jester | motley, {2+1d4*2} bells | 
    \o <<"4","2","\t","J","e","s","t","e","r","\t","m","o","t","l","e","y",","," ","{","2","+","1","d","4","*","2","}"," ","b","e","l","l","s","\t","\n">>
    \* 43-60 | Sage | {1d6} scrolls, quill | Elf
    \o <<"4","3","-","6","0","\t","S","a","g","e","\t","{","1","d","6","}"," ","s","c","r","o","l","l","s",","," ","q","u","i","l","l","\t","E","l","f","\n">>
    \* 61-75 | Poulterer | {poultry}, {poultry} | Halfling
    \o <<"6","1","-","7","5","\t","P","o","u","l","t","e","r","e","r","\t","{","p","o","u","l","t","r","y","}",","," ","{","p","o","u","l","t","r","y","}","\t","H","a","l","f","l","i","n","g","\n">>
    \* 76-90 | Gardener | {crop}, {crop}, spade | Halfling
    \o <<"7","6","-","9","0","\t","G","a","r","d","e","n","e","r","\t","{","c","r","o","p","}",","," ","{","c","r","o","p","}",","," ","s","p","a","d","e","\t","H","a","l","f","l","i","n","g","\n">>
    \* 91-100 | Herbalist | herbs | 
    \o <<"9","1","-","1","0","0","\t","H","e","r","b","a","l","i","s","t","\t","h","e","r","b","s","\t","\n">>

\* names.tsv: the text of the file, one line of the table per line below.
namesTsv ==
    \* d20 | Common | Common | Common | Elf | Dwarf | Halfling
       <<"d","2","0","\t","C","o","m","m","o","n","\t","C","o","m","m","o","n","\t","C","o","m","m","o","n","\t","E","l","f","\t","D","w","a","r","f","\t","H","a","l","f","l","i","n","g","\n">>
    \* 1 | Al1 | Bo1 | Cy1 | El1 | Dw1 | Ha1
    \o <<"1","\t","A","l","1","\t","B","o","1","\t","C","y","1","\t","E","l","1","\t","D","w","1","\t","H","a","1","\n">>
    \* 2 | Al2 | Bo2 | Cy2 | El2 | Dw2 | Ha2
    \o <<"2","\t","A","l","2","\t","B","o","2","\t","C","y","2","\t","E","l","2","\t","D","w","2","\t","H","a","2","\n">>
    \* 3 | Al3 | Bo3 | Cy3 | El3 | Dw3 | Ha3
    \o <<"3","\t","A","l","3","\t","B","o","3","\t","C","y","3","\t","E","l","3","\t","D","w","3","\t","H","a","3","\n">>
    \* 4 | Al4 | Bo4 | Cy4 | El4 | Dw4 | Ha4
    \o <<"4","\t","A","l","4","\t","B","o","4","\t","C","y","4","\t","E","l","4","\t","D","w","4","\t","H","a","4","\n">>
    \* 5 | Al5 | Bo5 | Cy5 | El5 | Dw5 | Ha5
    \o <<"5","\t","A","l","5","\t","B","o","5","\t","C","y","5","\t","E","l","5","\t","D","w","5","\t","H","a","5","\n">>
    \* 6 | Al6 | Bo6 | Cy6 | El6 | Dw6 | Ha6
    \o <<"6","\t","A","l","6","\t","B","o","6","\t","C","y","6","\t","E","l","6","\t","D","w","6","\t","H","a","6","\n">>
    \* 7 | Al7 | Bo7 | Cy7 | El7 | Dw7 | Ha7
    \o <<"7","\t","A","l","7","\t","B","o","7","\t","C","y","7","\t","E","l","7","\t","D","w","7","\t","H","a","7","\n">>
    \* 8 | Al8 | Bo8 | Cy8 | El8 | Dw8 | Ha8
    \o <<"8","\t","A","l","8","\t","B","o","8","\t","C","y","8","\t","E","l","8","\t","D","w","8","\t","H","a","8","\n">>
    \* 9 | Al9 | Bo9 | Cy9 | El9 | Dw9 | Ha9
    \o <<"9","\t","A","l","9","\t","B","o","9","\t","C","y","9","\t","E","l","9","\t","D","w","9","\t","H","a","9","\n">>
    \* 10 | Al10 | Bo10 | Cy10 | El10 | Dw10 | Ha10
    \o <<"1","0","\t","A","l","1","0","\t","B","o","1","0","\t","C","y","1","0","\t","E","l","1","0","\t","D","w","1","0","\t","H","a","1","0","\n">>
    \* 11 | Al11 | Bo11 | Cy11 | El11 | Dw11 | Ha11
    \o <<"1","1","\t","A","l","1","1","\t","B","o","1","1","\t","C","y","1","1","\t","E","l","1","1","\t","D","w","1","1","\t","H","a","1","1","\n">>
    \* 12 | Al12 | Bo12 | Cy12 | El12 | Dw12 | Ha12
    \o <<"1","2","\t","A","l","1","2","\t","B","o","1","2","\t","C","y","1","2","\t","E","l","1","2","\t","D","w","1","2","\t","H","a","1","2","\n">>
    \* 13 | Al13 | Bo13 | Cy13 | El13 | Dw13 | Ha13
    \o <<"1","3","\t","A","l","1","3","\t","B","o","1","3","\t","C","y","1","3","\t","E","l","1","3","\t","D","w","1","3","\t","H","a","1","3","\n">>
    \* 14 | Al14 | Bo14 | Cy14 | El14 | Dw14 | Ha14
    \o <<"1","4","\t","A","l","1","4","\t","B","o","1","4","\t","C","y","1","4","\t","E","l","1","4","\t","D","w","1","4","\t","H","a","1","4","\n">>
    \* 15 | Al15 | Bo15 | Cy15 | El15 | Dw15 | Ha15
    \o <<"1","5","\t","A","l","1","5","\t","B","o","1","5","\t","C","y","1","5","\t","E","l","1","5","\t","D","w","1","5","\t","H","a","1","5","\n">>
    \* 16 | Al16 | Bo16 | Cy16 | El16 | Dw16 | Ha16
    \o <<"1","6","\t","A","l","1","6","\t","B","o","1","6","\t","C","y","1","6","\t","E","l","1","6","\t","D","w","1","6","\t","H","a","1","6","\n">>
    \* 17 | Al17 | Bo17 | Cy17 | El17 | Dw17 | Ha17
    \o <<"1","7","\t","A","l","1","7","\t","B","o","1","7","\t","C","y","1","7","\t","E","l","1","7","\t","D","w","1","7","\t","H","a","1","7","\n">>
    \* 18 | Al18 | Bo18 | Cy18 | El18 | Dw18 | Ha18
    \o <<"1","8","\t","A","l","1","8","\t","B","o","1","8","\t","C","y","1","8","\t","E","l","1","8","\t","D","w","1","8","\t","H","a","1","8","\n">>
    \* 19 | Al19 | Bo19 | Cy19 | El19 | Dw19 | Ha19
    \o <<"1","9","\t","A","l","1","9","\t","B","o","1","9","\t","C","y","1","9","\t","E","l","1","9","\t","D","w","1","9","\t","H","a","1","9","\n">>
    \* 20 | Al20 | Bo20 | Cy20 | El20 | Dw20 | Ha20
    \o <<"2","0","\t","A","l","2","0","\t","B","o","2","0","\t","C","y","2","0","\t","E","l","2","0","\t","D","w","2","0","\t","H","a","2","0","\n">>

\* looks.tsv: the text of the file, one line of the table per line below.
looksTsv ==
    \* d20 | Face | Eyes | Hair | Body | Clothing
       <<"d","2","0","\t","F","a","c","e","\t","E","y","e","s","\t","H","a","i","r","\t","B","o","d","y","\t","C","l","o","t","h","i","n","g","\n">>
    \* 1 | Fa1 | Ey1 | Hr1 | Bd1 | Cl1
    \o <<"1","\t","F","a","1","\t","E","y","1","\t","H","r","1","\t","B","d","1","\t","C","l","1","\n">>
    \* 2 | Fa2 | Ey2 | Hr2 | Bd2 | Cl2
    \o <<"2","\t","F","a","2","\t","E","y","2","\t","H","r","2","\t","B","d","2","\t","C","l","2","\n">>
    \* 3 | Fa3 | Ey3 | Hr3 | Bd3 | Cl3
    \o <<"3","\t","F","a","3","\t","E","y","3","\t","H","r","3","\t","B","d","3","\t","C","l","3","\n">>
    \* 4 | Fa4 | Ey4 | Hr4 | Bd4 | Cl4
    \o <<"4","\t","F","a","4","\t","E","y","4","\t","H","r","4","\t","B","d","4","\t","C","l","4","\n">>
    \* 5 | Fa5 | Ey5 | Hr5 | Bd5 | Cl5
    \o <<"5","\t","F","a","5","\t","E","y","5","\t","H","r","5","\t","B","d","5","\t","C","l","5","\n">>
    \* 6 | Fa6 | Ey6 | Hr6 | Bd6 | Cl6
    \o <<"6","\t","F","a","6","\t","E","y","6","\t","H","r","6","\t","B","d","6","\t","C","l","6","\n">>
    \* 7 | Fa7 | Ey7 | Hr7 | Bd7 | Cl7
    \o <<"7","\t","F","a","7","\t","E","y","7","\t","H","r","7","\t","B","d","7","\t","C","l","7","\n">>
    \* 8 | Fa8 | Ey8 | Hr8 | Bd8 | Cl8
    \o <<"8","\t","F","a","8","\t","E","y","8","\t","H","r","8","\t","B","d","8","\t","C","l","8","\n">>
    \* 9 | Fa9 | Ey9 | Hr9 | Bd9 | Cl9
    \o <<"9","\t","F","a","9","\t","E","y","9","\t","H","r","9","\t","B","d","9","\t","C","l","9","\n">>
    \* 10 | Fa10 | Ey10 | Hr10 | Bd10 | Cl10
    \o <<"1","0","\t","F","a","1","0","\t","E","y","1","0","\t","H","r","1","0","\t","B","d","1","0","\t","C","l","1","0","\n">>
    \* 11 | Fa11 | Ey11 | Hr11 | Bd11 | Cl11
    \o <<"1","1","\t","F","a","1","1","\t","E","y","1","1","\t","H","r","1","1","\t","B","d","1","1","\t","C","l","1","1","\n">>
    \* 12 | Fa12 | Ey12 | Hr12 | Bd12 | Cl12
    \o <<"1","2","\t","F","a","1","2","\t","E","y","1","2","\t","H","r","1","2","\t","B","d","1","2","\t","C","l","1","2","\n">>
    \* 13 | Fa13 | Ey13 | Hr13 | Bd13 | Cl13
    \o <<"1","3","\t","F","a","1","3","\t","E","y","1","3","\t","H","r","1","3","\t","B","d","1","3","\t","C","l","1","3","\n">>
    \* 14 | Fa14 | Ey14 | Hr14 | Bd14 | Cl14
    \o <<"1","4","\t","F","a","1","4","\t","E","y","1","4","\t","H","r","1","4","\t","B","d","1","4","\t","C","l","1","4","\n">>
    \* 15 | Fa15 | Ey15 | Hr15 | Bd15 | Cl15
    \o <<"1","5","\t","F","a","1","5","\t","E","y","1","5","\t","H","r","1","5","\t","B","d","1","5","\t","C","l","1","5","\n">>
    \* 16 | Fa16 | Ey16 | Hr16 | Bd16 | Cl16
    \o <<"1","6","\t","F","a","1","6","\t","E","y","1","6","\t","H","r","1","6","\t","B","d","1","6","\t","C","l","1","6","\n">>
    \* 17 | Fa17 | Ey17 | Hr17 | Bd17 | Cl17
    \o <<"1","7","\t","F","a","1","7","\t","E","y","1","7","\t","H","r","1","7","\t","B","d","1","7","\t","C","l","1","7","\n">>
    \* 18 | Fa18 | Ey18 | Hr18 | Bd18 | Cl18
    \o <<"1","8","\t","F","a","1","8","\t","E","y","1","8","\t","H","r","1","8","\t","B","d","1","8","\t","C","l","1","8","\n">>
    \* 19 | Fa19 | Ey19 | Hr19 | Bd19 | Cl19
    \o <<"1","9","\t","F","a","1","9","\t","E","y","1","9","\t","H","r","1","9","\t","B","d","1","9","\t","C","l","1","9","\n">>
    \* 20 | Fa20 | Ey20 | Hr20 | Bd20 | Cl20
    \o <<"2","0","\t","F","a","2","0","\t","E","y","2","0","\t","H","r","2","0","\t","B","d","2","0","\t","C","l","2","0","\n">>

\* bonds.tsv: the text of the file, one line of the table per line below.
bondsTsv ==
    \* Bond | 1 | 2 | 3 | 4
       <<"B","o","n","d","\t","1","\t","2","\t","3","\t","4","\n">>
    \* They once saved my ... from ruin | farm | shop | mill | name
    \o <<"T","h","e","y"," ","o","n","c","e"," ","s","a","v","e","d"," ","m","y"," ",".",".","."," ","f","r","o","m"," ","r","u","i","n","\t","f","a","r","m","\t","s","h","o","p","\t","m","i","l","l","\t","n","a","m","e","\n">>
    \* I owe ... to ... kin | gold | $5 | my life | thanks
    \o <<"I"," ","o","w","e"," ",".",".","."," ","t","o"," ",".",".","."," ","k","i","n","\t","g","o","l","d","\t","$","5","\t","m","y"," ","l","i","f","e","\t","t","h","a","n","k","s","\n">>
    \* We grew up together | near | far | high | low
    \o <<"W","e"," ","g","r","e","w"," ","u","p"," ","t","o","g","e","t","h","e","r","\t","n","e","a","r","\t","f","a","r","\t","h","i","g","h","\t","l","o","w","\n">>
    \* Bond4 ... x | p4 | q4 | r4 | s4
    \o <<"B","o","n","d","4"," ",".",".","."," ","x","\t","p","4","\t","q","4","\t","r","4","\t","s","4","\n">>
    \* Bond5 ... x | p5 | q5 | r5 | s5
    \o <<"B","o","n","d","5"," ",".",".","."," ","x","\t","p","5","\t","q","5","\t","r","5","\t","s","5","\n">>
    \* Bond6 ... x | p6 | q6 | r6 | s6
    \o <<"B","o","n","d","6"," ",".",".","."," ","x","\t","p","6","\t","q","6","\t","r","6","\t","s","6","\n">>
    \* Bond7 ... x | p7 | q7 | r7 | s7
    \o <<"B","o","n","d","7"," ",".",".","."," ","x","\t","p","7","\t","q","7","\t","r","7","\t","s","7","\n">>
    \* Bond8 ... x | p8 | q8 | r8 | s8
    \o <<"B","o","n","d","8"," ",".",".","."," ","x","\t","p","8","\t","q","8","\t","r","8","\t","s","8","\n">>
    \* Bond9 ... x | p9 | q9 | r9 | s9
    \o <<"B","o","n","d","9"," ",".",".","."," ","x","\t","p","9","\t","q","9","\t","r","9","\t","s","9","\n">>
    \* Bond10 ... x | p10 | q10 | r10 | s10
    \o <<"B","o","n","d","1","0"," ",".",".","."," ","x","\t","p","1","0","\t","q","1","0","\t","r","1","0","\t","s","1","0","\n">>
    \* Bond11 ... x | p11 | q11 | r11 | s11
    \o <<"B","o","n","d","1","1"," ",".",".","."," ","x","\t","p","1","1","\t","q","1","1","\t","r","1","1","\t","s","1","1","\n">>
    \* Bond12 ... x | p12 | q12 | r12 | s12
    \o <<"B","o","n","d","1","2"," ",".",".","."," ","x","\t","p","1","2","\t","q","1","2","\t","r","1","2","\t","s","1","2","\n">>
    \* Bond13 ... x | p13 | q13 | r13 | s13
    \o <<"B","o","n","d","1","3"," ",".",".","."," ","x","\t","p","1","3","\t","q","1","3","\t","r","1","3","\t","s","1","3","\n">>
    \* Bond14 ... x | p14 | q14 | r14 | s14
    \o <<"B","o","n","d","1","4"," ",".",".","."," ","x","\t","p","1","4","\t","q","1","4","\t","r","1","4","\t","s","1","4","\n">>
    \* Bond15 ... x | p15 | q15 | r15 | s15
    \o <<"B","o","n","d","1","5"," ",".",".","."," ","x","\t","p","1","5","\t","q","1","5","\t","r","1","5","\t","s","1","5","\n">>
    \* Bond16 ... x | p16 | q16 | r16 | s16
    \o <<"B","o","n","d","1","6"," ",".",".","."," ","x","\t","p","1","6","\t","q","1","6","\t","r","1","6","\t","s","1","6","\n">>
    \* Bond17 ... x | p17 | q17 | r17 | s17
    \o <<"B","o","n","d","1","7"," ",".",".","."," ","x","\t","p","1","7","\t","q","1","7","\t","r","1","7","\t","s","1","7","\n">>
    \* Bond18 ... x | p18 | q18 | r18 | s18
    \o <<"B","o","n","d","1","8"," ",".",".","."," ","x","\t","p","1","8","\t","q","1","8","\t","r","1","8","\t","s","1","8","\n">>
    \* Bond19 ... x | p19 | q19 | r19 | s19
    \o <<"B","o","n","d","1","9"," ",".",".","."," ","x","\t","p","1","9","\t","q","1","9","\t","r","1","9","\t","s","1","9","\n">>
    \* Bond20 ... x | p20 | q20 | r20 | s20
    \o <<"B","o","n","d","2","0"," ",".",".","."," ","x","\t","p","2","0","\t","q","2","0","\t","r","2","0","\t","s","2","0","\n">>

\* readTsv: the text trimmed, split into lines, each line split at tabs.
readTsv(text) ==
    LET lines == Split(Trim(text), "\n") IN
    [k \in 1..Len(lines) |-> Split(lines[k], "\t")]

\* const [, ...rows] = readTsv(name): the header line is dropped.
occupationRows == Tail(readTsv(occupationsTsv))
nameRows == Tail(readTsv(namesTsv))
lookRows == Tail(readTsv(looksTsv))
bondRows == Tail(readTsv(bondsTsv))

CROPS == <<
    <<"b","a","r","l","e","y">>, <<"o","n","i","o","n","s">>, <<"p","e","p","p","e","r","s">>, <<"p","o","t","a","t","o","e","s">>, <<"s","q","u","a","s","h">>,
    <<"r","i","c","e">>, <<"w","h","e","a","t">>, <<"h","o","p","s">>, <<"b","e","e","t","s">>, <<"o","a","t","s">> >>

INSTRUMENTS == <<
    <<"a","c","c","o","r","d","i","o","n"," ","(","2"," ","w","t",")">>, <<"d","r","u","m"," ","(","1"," ","w","t",")">>, <<"f","i","d","d","l","e"," ","(","1"," ","w","t",")">>, <<"f","l","u","t","e">>,
    <<"g","u","i","t","a","r"," ","(","1"," ","w","t",")">>, <<"m","b","i","r","a">>, <<"h","o","r","n"," ","(","1"," ","w","t",")">>, <<"b","a","n","j","o"," ","(","1"," ","w","t",")">> >>

ANIMAL_TRAINER_GEAR == <<
    <<"l","e","a","t","h","e","r"," ","g","a","u","n","t","l","e","t",","," ","f","a","l","c","o","n">>, <<"2"," ","d","o","g","s",","," ","l","e","a","s","h","e","s">>,
    <<"m","o","n","k","e","y",","," ","m","u","s","i","c"," ","b","o","x"," ","(","2"," ","w","t",")">>, <<"c","a","g","e"," ","(","1"," ","w","t",")",","," ","2"," ","f","e","r","r","e","t","s">> >>

---------------------------------------------------------------------------
(* Gear templates *)

\* The passes of expandGearTemplate, in the order the replace calls are chained.
GearPasses == <<"dice", "compound", "crop", "instrument", "animal_trainer_gear", "poultry">>

\* The literal token of each pass but the first.
TokenText(kind) ==
    CASE kind = "compound" -> <<"{","2","+","1","d","4","*","2","}">>
      [] kind = "crop" -> <<"{","c","r","o","p","}">>
      [] kind = "instrument" -> <<"{","i","n","s","t","r","u","m","e","n","t","}">>
      [] kind = "animal_trainer_gear" -> <<"{","a","n","i","m","a","l","_","t","r","a","i","n","e","r","_","g","e","a","r","}">>
      [] kind = "poultry" -> <<"{","p","o","u","l","t","r","y","}">>

\* /\{(\d+)d(\d+)\}/ at position i of s, read left to right: "{", n1 >= 1
\* digits, "d" (at dpos), n2 >= 1 digits, "}".  Each operator gives the
\* length of the match, 0 when there is none.
DiceClose(s, i, dpos, n2) ==
    IF n2 = 0 \/ dpos + 1 + n2 > Len(s) \/ s[dpos + 1 + n2] # "}" THEN 0
    ELSE dpos + 1 + n2 - i + 1

DiceSides(s, i, dpos) ==
    IF dpos > Len(s) \/ s[dpos] # "d" THEN 0
    ELSE DiceClose(s, i, dpos, Len(DigitPrefix(SubSeq(s, dpos + 1, Len(s)))))

DiceCount(s, i, n1) == IF n1 = 0 THEN 0 ELSE DiceSides(s, i, i + 1 + n1)

DiceMatchLen(s, i) ==
    IF i > Len(s) \/ s[i] # "{" THEN 0
    ELSE DiceCount(s, i, Len(DigitPrefix(SubSeq(s, i + 1, Len(s)))))

\* Length of the match of the pass's pattern that starts at position i of s.
MatchLen(kind, s, i) ==
    IF kind = "dice" THEN DiceMatchLen(s, i)
    ELSE IF OccursAt(s, TokenText(kind), i) THEN Len(TokenText(kind))
    ELSE 0

\* String(<roll>), 2 + <roll> * 2, LIST[<roll> - 1]: what the callbacks
\* make of the roll r they made.
StringOfRoll(r) == [value |-> String(r.value), random |-> r.random]
CompoundOfRoll(r) == [value |-> String(2 + r.value * 2), random |-> r.random]
PickByRoll(list, r) == [value |-> At(list, r.value - 1), random |-> r.random]

\* The {poultry} callback: the four phrases are built first (four rolls, in
\* r.value[1..4]), then one is picked (the fifth roll).
PoultryOfRolls(r) ==
    [value |-> At(<< String(r.value[1]) \o <<" ","c","h","i","c","k","e","n","s">>,
                     String(r.value[2]) \o <<" ","d","u","c","k","s">>,
                     String(r.value[3]) \o <<" ","g","e","e","s","e">>,
                     String(r.value[4]) \o <<" ","s","w","a","n","s">> >>,
                  r.value[5] - 1),
     random |-> r.random]

\* The replacement callback of each pass, called on the matched text.  The
\* captures of the dice pattern are the text between the braces, put back
\* together as `${count}d${sides}`.
Replacement(kind, matched, rs) ==
    CASE kind = "dice" ->
            StringOfRoll(roll(SubSeq(matched, 2, Len(matched) - 1), rs))
      [] kind = "compound" -> CompoundOfRoll(roll(<<"1","d","4">>, rs))
      [] kind = "crop" -> PickByRoll(CROPS, roll(<<"1","d","1","0">>, rs))
      [] kind = "instrument" -> PickByRoll(INSTRUMENTS, roll(<<"1","d","8">>, rs))
      [] kind = "animal_trainer_gear" ->
            PickByRoll(ANIMAL_TRAINER_GEAR, roll(<<"1","d","4">>, rs))
      [] kind = "poultry" ->
            PoultryOfRolls(RollEach(<<<<"1","d","6">>, <<"1","d","6">>, <<"1","d","4">>, <<"1","d","4">>, <<"1","d","4">>>>, rs))

\* The position of the first match of the pass's pattern at or after
\* position i of s, 0 when there is none.
NextMatch(kind, s, i) ==
    IF \E j \in i..Len(s) : MatchLen(kind, s, j) > 0
    THEN CHOOSE j \in i..Len(s) :
            /\ MatchLen(kind, s, j) > 0
            /\ \A h \in i..(j - 1) : MatchLen(kind, s, h) = 0
    ELSE 0

\* String.prototype.replace with a global pattern and a callback: the
\* matches are taken left to right without overlap, the callback runs once
\* per match, everything else is copied.  ReplaceAll goes on from position
\* i, out being the text produced so far; ReplaceAt acts on the position j
\* of the next match; ReplaceWith goes on after the replacement rep.
RECURSIVE ReplaceAll(_, _, _, _, _)

ReplaceWith(kind, s, i, out, rep) ==
    ReplaceAll(kind, s, i, out \o rep.value, rep.random)

\* ReplaceAt for a pattern without the g flag: only the first match is
\* replaced, the rest of the text is copied.
ReplaceAtOnce(kind, s, i, out, rs, j) ==
    IF j = 0 THEN [value |-> out \o SubSeq(s, i, Len(s)), random |-> rs]
    ELSE LET rep == Replacement(kind, SubSeq(s, j, j + MatchLen(kind, s, j) - 1), rs) IN
         [value |-> out \o SubSeq(s, i, j - 1) \o rep.value
                        \o SubSeq(s, j + MatchLen(kind, s, j), Len(s)),
          random |-> rep.random]

ReplaceAt(kind, s, i, out, rs, j) ==
    IF j = 0 THEN [value |-> out \o SubSeq(s, i, Len(s)), random |-> rs]
    ELSE ReplaceWith(kind, s, j + MatchLen(kind, s, j), out \o SubSeq(s, i, j - 1),
                     Replacement(kind, SubSeq(s, j, j + MatchLen(kind, s, j) - 1), rs))

ReplaceAll(kind, s, i, out, rs) ==
    ReplaceAt(kind, s, i, out, rs, NextMatch(kind, s, i))

\* The chain of replace calls from pass p on, r being the text and the
\* source so far.
RECURSIVE ExpandFrom(_, _)
ExpandFrom(p, r) ==
    IF p > Len(GearPasses) THEN r
    ELSE ExpandFrom(p + 1, ReplaceAll(GearPasses[p], r.value, 1, <<>>, r.random))

expandGearTemplate(template, rs) ==
    ExpandFrom(1, [value |-> template, random |-> rs])

---------------------------------------------------------------------------
(* Occupations *)

\* parts.length === 1 ? [parts[0], parts[0]] : [parts[0], parts[1]]
RangeOf(nums) ==
    IF Len(nums) = 1 THEN <<NumAt(nums, 0), NumAt(nums, 0)>>
    ELSE <<NumAt(nums, 0), NumAt(nums, 1)>>

parseRange(s) == RangeOf(MapNumber(Split(s, "-")))

\* InRange with the upper end left out.
InRangeExclusive(rollResult, range) ==
    NumGe(rollResult, range[1]) /\ NumLt(rollResult, range[2])

\* rollResult >= min && rollResult <= max
InRange(rollResult, range) ==
    NumGe(rollResult, range[1]) /\ NumLe(rollResult, range[2])

\* The predicate of occupationRows.find.
RowMatches(row, rollResult) == InRange(rollResult, parseRange(At(row, 0)))

\* Array.prototype.find: the index (1-based) of the first row the predicate
\* accepts, 0 when there is none.
FindRow(rows, rollResult) ==
    IF \E k \in 1..Len(rows) : RowMatches(rows[k], rollResult)
    THEN CHOOSE k \in 1..Len(rows) :
            /\ RowMatches(rows[k], rollResult)
            /\ \A j \in 1..(k - 1) : ~RowMatches(rows[j], rollResult)
    ELSE 0

\* (row[3] as Species) || "Human"
SpeciesOf(cell) == IF cell = Undefined \/ cell = <<>> THEN <<"H","u","m","a","n">> ELSE cell

\* The object getOccupation returns for the row found, gear being the
\* expansion of its template.
OccupationOf(row, gear) ==
    [throws |-> FALSE,
     value |-> [name |-> At(row, 1),
                gear |-> gear.value,
                species |-> SpeciesOf(At(row, 3))],
     random |-> gear.random]

\* getOccupation once find has answered k: it throws (a TypeError) when no
\* row matches, since row is then undefined and row[1] is read.
OccupationAt(rows, k, rs) ==
    IF k = 0 THEN [throws |-> TRUE, value |-> Undefined, random |-> rs]
    ELSE OccupationOf(rows[k], expandGearTemplate(At(rows[k], 2), rs))

getOccupation(rollResult, rs) ==
    OccupationAt(occupationRows, FindRow(occupationRows, rollResult), rs)

---------------------------------------------------------------------------
(* Names, looks, bonds, heritage moves *)

\* return row[<column>] after the last roll r made.
NameAt(row, r) == [value |-> At(row, r.value), random |-> r.random]

\* The default branch with the test on the coin inverted.
CommonNameInverted(row, coin) ==
    IF coin.value = 2 THEN NameAt(row, roll(<<"1","d","2">>, coin.random))
    ELSE [value |-> At(row, 3), random |-> coin.random]

\* The default branch, coin being the roll of its condition:
\* if (roll("1d2") === 1) return row[roll("1d2")]; return row[3];
CommonName(row, coin) ==
    IF coin.value = 1 THEN NameAt(row, roll(<<"1","d","2">>, coin.random))
    ELSE [value |-> At(row, 3), random |-> coin.random]

\* The switch on species, for the row picked.
NameInRow(species, row, rs) ==
    CASE species = <<"E","l","f">> -> [value |-> At(row, 4), random |-> rs]
      [] species = <<"D","w","a","r","f">> -> [value |-> At(row, 5), random |-> rs]
      [] species = <<"H","a","l","f","l","i","n","g">> -> [value |-> At(row, 6), random |-> rs]
      [] OTHER -> CommonName(row, roll(<<"1","d","2">>, rs))

\* const r = roll("1d20") - 1; const row = nameRows[r]; for that roll.
NameByRoll(species, r) == NameInRow(species, At(nameRows, r.value - 1), r.random)

getName(species, rs) == NameByRoll(species, roll(<<"1","d","2","0">>, rs))

\* lookRows[<roll> - 1][col], lower-cased.
LookCell(rolls, col) == toLowerCase(At(At(lookRows, rolls[col] - 1), col))

\* The look built from the five rolls r made (face, eyes, hair, body,
\* clothing, in this order).
LookOfRolls(r) ==
    [value |-> LookCell(r.value, 1) \o <<" ","f","a","c","e",","," ">>
               \o LookCell(r.value, 2) \o <<" ","e","y","e","s",","," ">>
               \o LookCell(r.value, 3) \o <<" ","h","a","i","r",","," ">>
               \o LookCell(r.value, 4) \o <<" ","b","o","d","y",","," ">>
               \o LookCell(r.value, 5) \o <<" ","c","l","o","t","h","i","n","g">>,
     random |-> r.random]

getLook(rs) ==
    LookOfRolls(RollEach(<<<<"1","d","2","0">>, <<"1","d","2","0">>, <<"1","d","2","0">>, <<"1","d","2","0">>, <<"1","d","2","0">>>>, rs))

\* The replacement text of String.prototype.replace when it is a string:
\* "$$" is a dollar, "$&" the match, "$" and a backquote the text before the
\* match, "$" and a quote the text after it; any other "$" stands for itself
\* (a string pattern has no groups for "$1" or "$<name>" to name).
DollarPattern(c, matched, before, after) ==
    CASE c = "$" -> <<"$">>
      [] c = "&" -> matched
      [] c = Backquote -> before
      [] c = "'" -> after

RECURSIVE Substitution(_, _, _, _)
Substitution(repl, matched, before, after) ==
    IF repl = <<>> THEN <<>>
    ELSE IF Head(repl) = "$" /\ Len(repl) >= 2
            /\ (repl[2] = "$" \/ repl[2] = "&" \/ repl[2] = Backquote \/ repl[2] = "'")
    THEN DollarPattern(repl[2], matched, before, after)
         \o Substitution(SubSeq(repl, 3, Len(repl)), matched, before, after)
    ELSE <<Head(repl)>> \o Substitution(Tail(repl), matched, before, after)

\* replace of every occurrence (replaceAll).
RECURSIVE StringReplaceEvery(_, _, _)
StringReplaceEvery(s, pat, repl) ==
    LET i == IndexOf(s, pat) IN
    IF i = 0 THEN s
    ELSE SubSeq(s, 1, i - 1) \o repl
         \o StringReplaceEvery(SubSeq(s, i + Len(pat), Len(s)), pat, repl)

\* s.replace(pat, repl) with a string pattern: the first occurrence only.
StringReplace(s, pat, repl) ==
    LET i == IndexOf(s, pat) IN
    IF i = 0 THEN s
    ELSE LET before == SubSeq(s, 1, i - 1)
             after == SubSeq(s, i + Len(pat), Len(s))
         IN  before \o Substitution(repl, pat, before, after) \o after

\* A value used as replacement text: undefined reads "undefined".
ToText(x) == IF x = Undefined THEN <<"u","n","d","e","f","i","n","e","d">> ELSE x

\* row[0].replace("...", row[<roll>]) for the roll d of the detail.
BondInRow(row, d) ==
    [value |-> StringReplace(At(row, 0), <<".",".",".">>, ToText(At(row, d.value))),
     random |-> d.random]

\* const row = bondRows[<roll> - 1], then the roll of the detail.
BondByRoll(r) == BondInRow(At(bondRows, r.value - 1), roll(<<"1","d","4">>, r.random))

getBond(rs) == BondByRoll(roll(<<"1","d","2","0">>, rs))

EtchedInStone ==
    <<"E","t","c","h","e","d"," ","i","n"," ","S","t","o","n","e",":"," ","W","h","e","n"," ","y","o","u"," ","a","p","p","r","a","i","s","e"," ","a","n"," ","a","r","t","i","f","i","c","i","a","l"," ","i","t","e","m",","," ","o","b","j","e","c","t",","," ","o","r"," ","l","o","c","a","t","i","o","n",","," ","t","h","e"," ","G","M"," ","w","i","l","l"," ","t","e","l","l"," ","y","o","u"," ","s","o","m","e","t","h","i","n","g"," ","i","n","t","e","r","e","s","t","i","n","g"," ","a","b","o","u","t"," ","t","h","e"," ","o","n","e"," ","w","h","o"," ","m","a","d","e"," ","i","t",","," ","n","o"," ","q","u","e","s","t","i","o","n","s"," ","a","s","k","e","d",".">>

TheseElfEyes ==
    <<"T","h","e","s","e"," ","E","l","f"," ","E","y","e","s",":"," ","Y","o","u"," ","s","e","e"," ","p","e","r","f","e","c","t","l","y"," ","i","n"," ","t","h","e"," ","b","a","r","e","s","t"," ","l","i","g","h","t"," ","a","n","d"," ","m","a","y"," ","f","o","c","u","s"," ","y","o","u","r"," ","s","e","n","s","e","s"," ","t","o"," ","D","e","t","e","c","t"," ","M","a","g","i","c"," ","a","t"," ","w","i","l","l",".">>

Lucky ==
    <<"L","u","c","k","y",":"," ","W","h","e","n"," ","y","o","u"," ","T","e","m","p","t"," ","F","a","t","e"," ","a","n","d"," ","s","c","o","r","e"," ","a"," ","1","0","+"," ","y","o","u"," ","d","o","n","'","t"," ","s","u","f","f","e","r"," ","d","i","s","a","d","v","a","n","t","a","g","e"," ","a","n","d"," ","o","n"," ","a"," ","1","2","+"," ","y","o","u","r"," ","l","u","c","k"," ","r","u","b","s"," ","o","f","f",";"," ","t","h","e"," ","n","e","a","r","e","s","t"," ","a","l","l","y"," ","g","a","i","n","s"," ","a","d","v","a","n","t","a","g","e"," ","o","n"," ","t","h","e","i","r"," ","n","e","x","t"," ","r","o","l","l",".">>

\* getHeritageMoves without the Halfling case.
getHeritageMovesNoHalfling(species) ==
    CASE species = <<"D","w","a","r","f">> -> <<EtchedInStone>>
      [] species = <<"E","l","f">> -> <<TheseElfEyes>>
      [] OTHER -> <<>>

getHeritageMoves(species) ==
    CASE species = <<"D","w","a","r","f">> -> <<EtchedInStone>>
      [] species = <<"E","l","f">> -> <<TheseElfEyes>>
      [] species = <<"H","a","l","f","l","i","n","g">> -> <<Lucky>>
      [] OTHER -> <<>>

---------------------------------------------------------------------------
(* The generator *)

StatNames == <<"STR", "DEX", "CON", "INT", "WIS", "CHA", "LUC">>

StatIndex(name) == CHOOSE k \in 1..Len(StatNames) : StatNames[k] = name

\* const stats = {STR: roll("3d6"), ...}: rolled holds the seven results in
\* the order of the literal.
StatsOf(rolled) ==
    [n \in {StatNames[k] : k \in 1..Len(StatNames)} |-> rolled[StatIndex(n)]]

\* const modifiers = {STR: getMod(stats.STR), ...}
ModifiersOf(stats) == [n \in DOMAIN stats |-> getMod(stats[n])]

\* hp taken from STR.
hpFromSTR(stats) == stats["STR"] + 4

\* const hp = stats.CON + 4; const load = stats.STR + 4;
hpOf(stats) == stats["CON"] + 4
loadOf(stats) == stats["STR"] + 4

\* The object generateVillager returns, once every call it makes has
\* returned: bond is the last of them.
VillagerOf(stats, occ, name, look, bond) ==
    [throws |-> FALSE,
     value |-> [name |-> name,
                species |-> occ.species,
                occupation |-> occ.name,
                look |-> look,
                stats |-> stats,
                modifiers |-> ModifiersOf(stats),
                hp |-> hpOf(stats),
                load |-> loadOf(stats),
                damage |-> <<"d","4">>,
                gear |-> <<occ.gear>>,
                bond |-> bond.value,
                heritageMoves |-> getHeritageMoves(occ.species)],
     random |-> bond.random]

\* The calls of the returned literal, in the order it lists them:
\* getName(occ.species), getLook(), getBond().
VillagerAfterLook(stats, occ, name, look) ==
    VillagerOf(stats, occ, name, look.value, getBond(look.random))

VillagerAfterName(stats, occ, name) ==
    VillagerAfterLook(stats, occ, name.value, getLook(name.random))

\* After const occ = getOccupation(roll("1d100")): a throw of getOccupation
\* leaves generateVillager.
VillagerAfterOccupation(stats, occ) ==
    IF occ.throws THEN occ
    ELSE VillagerAfterName(stats, occ.value, getName(occ.value.species, occ.random))

OccupationByRoll(d100) == getOccupation(d100.value, d100.random)

VillagerAfterStats(rolled) ==
    VillagerAfterOccupation(StatsOf(rolled.value),
                            OccupationByRoll(roll(<<"1","d","1","0","0">>, rolled.random)))

generateVillager(rs) ==
    VillagerAfterStats(
        RollEach(<<<<"3","d","6">>, <<"3","d","6">>, <<"3","d","6">>, <<"3","d","6">>, <<"3","d","6">>, <<"3","d","6">>, <<"3","d","6">>>>, rs))

-----
(* The cards *)

\* A split at every comma, whatever the depth.
SplitsAtAnyComma(char, depth) == char = ","

\* char === "," && depth === 0
SplitsHere(char, depth) == char = "," /\ depth = 0

\* The loop of parseGear over the characters from position i on.
RECURSIVE parseGearLoop(_, _, _, _, _)
parseGearLoop(gearStr, i, items, current, depth) ==
    IF i > Len(gearStr)
    THEN IF Trim(current) # <<>> THEN Append(items, Trim(current)) ELSE items
    ELSE LET char == gearStr[i]
             d == IF char = "(" THEN depth + 1
                  ELSE IF char = ")" THEN depth - 1
                  ELSE depth
         IN  IF SplitsHere(char, d)
             THEN parseGearLoop(gearStr, i + 1, Append(items, Trim(current)), <<>>, d)
             ELSE parseGearLoop(gearStr, i + 1, items, Append(current, char), d)

parseGear(gearStr) == parseGearLoop(gearStr, 1, <<>>, <<>>, 0)

\* v.gear.flatMap(parseGear)
RECURSIVE FlatMapParseGear(_)
FlatMapParseGear(gear) ==
    IF gear = <<>> THEN <<>>
    ELSE parseGear(Head(gear)) \o FlatMapParseGear(Tail(gear))

\* VillagerCard: the gear items it lists and the moves it lists (the
\* heritage moves, then the move every villager has).
KnowYourStuff ==
    <<"K","n","o","w"," ","Y","o","u","r"," ","S","t","u","f","f",":"," ","W","h","e","n"," ","y","o","u"," ","S","p","o","u","t"," ","L","o","r","e"," ","o","r"," ","D","i","s","c","e","r","n"," ","R","e","a","l","i","t","i","e","s"," ","a","b","o","u","t"," ","s","o","m","e","t","h","i","n","g"," ","r","e","l","a","t","e","d"," ","t","o"," ","y","o","u","r"," ","o","c","c","u","p","a","t","i","o","n",","," ","t","e","l","l"," ","t","h","e"," ","G","M"," ","w","h","y"," ","y","o","u"," ","d","e","s","e","r","v","e"," ","a","d","v","a","n","t","a","g","e"," ","a","n","d"," ","t","a","k","e"," ","i","t"," ","i","f"," ","t","h","e","y"," ","a","g","r","e","e","."," ","W","h","e","n"," ","y","o","u"," ","h","a","v","e"," ","t","h","e"," ","r","e","s","o","u","r","c","e","s"," ","t","o"," ","d","o"," ","s","o","m","e","t","h","i","n","g"," ","y","o","u"," ","k","n","o","w"," ","h","o","w"," ","t","o"," ","d","o",","," ","y","o","u"," ","d","o"," ","i","t",".">>

VillagerCard(v) ==
    [gearItems |-> FlatMapParseGear(v.gear),
     moves |-> Append(v.heritageMoves, KnowYourStuff)]

---------------------------------------------------------------------------
(* The entry script (lines 399-401) *)

\* Bounds of the inputs of the entry script.
MaxCount == 3
MaxSeed == 40

\* process.argv[2]: absent, empty, a count, or text that is no count.
Argv2Inputs ==
    {Undefined, <<>>, <<"a","b","c">>, <<"-","1">>, <<"2","x">>, <<" ","2">>, <<"x","2">>,
     <<"", "2">>, <<" ", "1">>}
    \cup {String(k) : k \in 0..MaxCount}

\* A default of "0" in place of "1".
ArgOrDefaultZero(a) == IF a = Undefined \/ a = <<>> THEN <<"0">> ELSE a

\* process.argv[2] || "1"
ArgOrDefault(a) == IF a = Undefined \/ a = <<>> THEN <<"1">> ELSE a

\* The length Array.from reads from {length: n}: NaN and negative numbers
\* give 0.
ToLength(n) == IF IsNum(n) /\ n > 0 THEN n ELSE 0

NotCalled == <<"none">>

Init ==
    /\ pc = "start"
    /\ argv2 \in Argv2Inputs
    /\ count = NaN            \* not assigned yet
    /\ villagers = <<>>
    /\ cards = <<>>
    /\ random \in {[forced |-> <<>>, seed |-> s] : s \in 1..MaxSeed}
    /\ args = NotCalled
    /\ result = NotCalled

\* const count = parseInt(process.argv[2] || "1", 10)
ParseCount ==
    /\ pc = "start"
    /\ count' = parseInt(ArgOrDefault(argv2))
    /\ pc' = "generate"
    /\ UNCHANGED <<argv2, villagers, cards, random, args, result>>

\* One call of generateVillager by Array.from({length: count}, ...).
GenerateOne ==
    /\ pc = "generate"
    /\ Len(villagers) < ToLength(count)
    /\ LET v == generateVillager(random) IN
        /\ random' = v.random
        /\ IF v.throws
           THEN pc' = "crashed" /\ villagers' = villagers
           ELSE pc' = pc /\ villagers' = Append(villagers, v.value)
    /\ UNCHANGED <<argv2, count, cards, args, result>>

\* render(<App villagers={villagers} />): one card per villager.
Render ==
    /\ pc = "generate"
    /\ Len(villagers) = ToLength(count)
    /\ cards' = [k \in 1..Len(villagers) |-> VillagerCard(villagers[k])]
    /\ pc' = "done"
    /\ UNCHANGED <<argv2, count, villagers, random, args, result>>

Next == ParseCount \/ GenerateOne \/ Render

Spec == Init /\ [][Next]_vars

---------------------------------------------------------------------------
(* The functions on their own: one specification per function, whose       *)
(* initial states enumerate its inputs and whose action applies it.        *)

\* The outcomes of Math.random enumerated for a die of the given sides:
\* the smallest outcome of every face, and the largest outcome.
DrawsFor(sides) ==
    {u \in 0..(RandomDen - 1) :
        u = 0 \/ ((u - 1) * sides) \div RandomDen # (u * sides) \div RandomDen}
    \cup {RandomDen - 1}

\* The variables of the entry script, which the functions leave alone.
EntryIdle ==
    /\ argv2 = Undefined
    /\ count = NaN
    /\ villagers = <<>>
    /\ cards = <<>>

EntryUnchanged == UNCHANGED <<argv2, count, villagers, cards>>

(* roll *)

MaxDice == 3
MaxSides == 6

InitRoll ==
    /\ EntryIdle
    /\ pc = "call"
    /\ result = NotCalled
    /\ \E n \in 1..MaxDice, sides \in 1..MaxSides :
        /\ args = [count |-> n, sides |-> sides,
                   dice |-> String(n) \o <<"d">> \o String(sides)]
        /\ random \in {[forced |-> t, seed |-> 1] : t \in [1..n -> DrawsFor(sides)]}

CallRoll ==
    /\ pc = "call"
    /\ LET r == roll(args.dice, random) IN
        /\ result' = r.value
        /\ random' = r.random
    /\ pc' = "return"
    /\ UNCHANGED args
    /\ EntryUnchanged

SpecRoll == InitRoll /\ [][CallRoll]_vars

(* expandGearTemplate *)

MaxSegments == 3
MaxGearSeed == 2

\* The pieces templates are built from: literal text and the tokens.
GearLiterals == {<<"h","o","e",","," ">>, <<" ","(","1"," ","w","t",")">>}
GearTokens ==
    {<<"{","2","d","6","}">>, <<"{","2","+","1","d","4","*","2","}">>, <<"{","c","r","o","p","}">>, <<"{","i","n","s","t","r","u","m","e","n","t","}">>,
     <<"{","a","n","i","m","a","l","_","t","r","a","i","n","e","r","_","g","e","a","r","}">>, <<"{","p","o","u","l","t","r","y","}">>}

RECURSIVE Concat(_)
Concat(segments) ==
    IF segments = <<>> THEN <<>> ELSE Head(segments) \o Concat(Tail(segments))

InitGear ==
    /\ EntryIdle
    /\ pc = "call"
    /\ result = NotCalled
    /\ \E n \in 1..MaxSegments :
        \E segments \in [1..n -> GearLiterals \cup GearTokens] :
            args = [segments |-> segments, template |-> Concat(segments)]
    /\ random \in {[forced |-> <<>>, seed |-> s] : s \in 1..MaxGearSeed}

CallExpandGearTemplate ==
    /\ pc = "call"
    /\ LET r == expandGearTemplate(args.template, random) IN
        /\ result' = r.value
        /\ random' = r.random
    /\ pc' = "return"
    /\ UNCHANGED args
    /\ EntryUnchanged

SpecGear == InitGear /\ [][CallExpandGearTemplate]_vars

(* getOccupation *)

MaxOccupationSeed == 2

InitOccupation ==
    /\ EntryIdle
    /\ pc = "call"
    /\ result = NotCalled
    /\ args \in {[rollResult |-> r] : r \in 1..100}
    /\ random \in {[forced |-> <<>>, seed |-> s] : s \in 1..MaxOccupationSeed}

CallGetOccupation ==
    /\ pc = "call"
    /\ LET r == getOccupation(args.rollResult, random) IN
        /\ result' = r.value
        /\ random' = r.random
        /\ pc' = IF r.throws THEN "throw" ELSE "return"
    /\ UNCHANGED args
    /\ EntryUnchanged

SpecOccupation == InitOccupation /\ [][CallGetOccupation]_vars

(* parseGear *)

MaxGearLen == 5

GearAlphabet == {"a", ",", "(", ")", " "}

InitParseGear ==
    /\ EntryIdle
    /\ pc = "call"
    /\ result = NotCalled
    /\ random = [forced |-> <<>>, seed |-> 1]
    /\ \/ \E n \in 0..MaxGearLen :
            args \in {[gearStr |-> s] : s \in [1..n -> GearAlphabet]}
       \/ args \in {[gearStr |-> s] : s \in {ANIMAL_TRAINER_GEAR[k] : k \in 1..4}}

CallParseGear ==
    /\ pc = "call"
    /\ result' = parseGear(args.gearStr)
    /\ pc' = "return"
    /\ UNCHANGED <<args, random>>
    /\ EntryUnchanged

SpecParseGear == InitParseGear /\ [][CallParseGear]_vars

(* getBond *)

InitBond ==
    /\ EntryIdle
    /\ pc = "call"
    /\ result = NotCalled
    /\ \E u1 \in DrawsFor(20), u2 \in DrawsFor(4) :
        /\ args = [draws |-> <<u1, u2>>]
        /\ random = [forced |-> <<u1, u2>>, seed |-> 1]

CallGetBond ==
    /\ pc = "call"
    /\ LET r == getBond(random) IN
        /\ result' = r.value
        /\ random' = r.random
    /\ pc' = "return"
    /\ UNCHANGED args
    /\ EntryUnchanged

SpecBond == InitBond /\ [][CallGetBond]_vars

(* getName *)

SpeciesInputs == {<<"H","u","m","a","n">>, <<"E","l","f">>, <<"D","w","a","r","f">>, <<"H","a","l","f","l","i","n","g">>, <<"G","n","o","m","e">>}

InitName ==
    /\ EntryIdle
    /\ pc = "call"
    /\ result = NotCalled
    /\ \E sp \in SpeciesInputs, u1 \in DrawsFor(20), u2 \in DrawsFor(2), u3 \in DrawsFor(2) :
        /\ args = [species |-> sp, draws |-> <<u1, u2, u3>>]
        /\ random = [forced |-> <<u1, u2, u3>>, seed |-> 1]

CallGetName ==
    /\ pc = "call"
    /\ LET r == getName(args.species, random) IN
        /\ result' = r.value
        /\ random' = r.random
    /\ pc' = "return"
    /\ UNCHANGED args
    /\ EntryUnchanged

SpecName == InitName /\ [][CallGetName]_vars


(* generateVillager *)

MaxVillagerSeed == 1

\* The largest outcome of Math.random that gives the face on a d6.
TopDrawOf(face) == (face * RandomDen - 1) \div 6

\* Three outcomes of Math.random whose 3d6 is the score.
DrawsOfScore(score) ==
    LET a == IF score - 2 < 6 THEN score - 2 ELSE 6
        b == IF score - a - 1 < 6 THEN score - a - 1 ELSE 6
    IN  <<TopDrawOf(a), TopDrawOf(b), TopDrawOf(score - a - b)>>

\* STR, DEX and CON are the first three rolls: their outcomes are enumerated,
\* the draws after them come from the generator.
InitVillager ==
    /\ EntryIdle
    /\ pc = "call"
    /\ result = NotCalled
    /\ \E str \in 3..18, dex \in 3..18, con \in 3..18, s \in 1..MaxVillagerSeed :
        /\ args = [STR |-> str, DEX |-> dex, CON |-> con]
        /\ random = [forced |-> DrawsOfScore(str) \o DrawsOfScore(dex) \o DrawsOfScore(con),
                     seed |-> s]

CallGenerateVillager ==
    /\ pc = "call"
    /\ LET v == generateVillager(random) IN
        /\ result' = IF v.throws THEN <<"TypeError">> ELSE v.value
        /\ random' = v.random
        /\ pc' = IF v.throws THEN "crashed" ELSE "return"
    /\ UNCHANGED args
    /\ EntryUnchanged

SpecVillager == InitVillager /\ [][CallGenerateVillager]_vars
---------------------------------------------------------------------------
(* Properties *)

\* The face floor(u * sides / RandomDen) + 1 of an outcome u, by counting
\* the faces f whose lower end f / sides the outcome has reached.
FaceOfDraw(u, sides) ==
    1 + Cardinality({f \in 1..(sides - 1) : f * RandomDen <= u * sides})

StatNameSet == {StatNames[k] : k \in 1..Len(StatNames)}

-----------------------------------------------------------------------------
\* C1 (as amended): when the entry script is done, the number of villager
\* records is k when the argument is the decimal numeral of k >= 0 (3 gives
\* 3 records, 0 gives none), 1 when the argument is absent or empty, and 0
\* when the argument is text that does not begin with a number; there is
\* one card per record.
IsNumeral(a, k) == a # Undefined /\ a = String(k)

NotANumber(a) ==
    /\ a # Undefined
    /\ a # <<>>
    /\ ~IsDigit(a[1])
    /\ a[1] \notin {"+", "-"}
    /\ ~IsSpace(a[1])

CountOfArgument ==
    pc = "done" =>
        /\ \A k \in 0..MaxCount : IsNumeral(argv2, k) => Len(villagers) = k
        /\ (argv2 = Undefined \/ argv2 = <<>>) => Len(villagers) = 1
        /\ NotANumber(argv2) => Len(villagers) = 0
        /\ Len(cards) = Len(villagers)

\* C1 as stated: the number of records is the count argument when it is a
\* non-negative integer, and 0 when the argument is absent or non-numeric.
CountOfArgumentAsStated ==
    pc = "done" =>
        /\ \A k \in 0..MaxCount : IsNumeral(argv2, k) => Len(villagers) = k
        /\ (argv2 = Undefined \/ NotANumber(argv2)) => Len(villagers) = 0

\* An argument of "3" has given three records and three cards.
CountOfArgumentWitness ==
    /\ pc = "done"
    /\ argv2 = <<"3">>
    /\ Len(villagers) = 3
    /\ Len(cards) = 3

-----------------------------------------------------------------------------
\* C2: for count >= 1 and sides >= 1, roll of "<count>d<sides>" returns an
\* integer between count and count * sides, whatever the draws; so 3d6 is
\* between 3 and 18.
RollInRange ==
    pc = "return" =>
        /\ result >= args.count
        /\ result <= args.count * args.sides
        /\ (args.count = 3 /\ args.sides = 6) => result \in 3..18

\* 3d6 has returned 18.
RollInRangeWitness ==
    /\ pc = "return"
    /\ args.count = 3
    /\ args.sides = 6
    /\ result = 18

-----------------------------------------------------------------------------
\* C3: getMod follows the step table on 3..20 (3: -3, 4-5: -2, 6-8: -1,
\* 9-12: 0, 13-15: +1, 16-17: +2, 18 and more: +3), and in every generated
\* villager each of the seven modifiers is the table's value for the paired
\* score.
ModTable(score) ==
    CASE score = 3 -> -3
      [] score \in 4..5 -> -2
      [] score \in 6..8 -> -1
      [] score \in 9..12 -> 0
      [] score \in 13..15 -> 1
      [] score \in 16..17 -> 2
      [] score >= 18 -> 3

ModifiersFollowTable ==
    /\ \A score \in 3..20 : getMod(score) = ModTable(score)
    /\ pc = "return" =>
        /\ DOMAIN result.modifiers = StatNameSet
        /\ DOMAIN result.stats = StatNameSet
        /\ \A n \in StatNameSet :
            /\ result.stats[n] \in 3..18
            /\ result.modifiers[n] = ModTable(result.stats[n])

\* A villager with the lowest, a middle and the highest modifier: STR 3,
\* DEX 12 and CON 18 give -3, 0 and +3.
ModifiersFollowTableWitness ==
    /\ pc = "return"
    /\ result.stats["STR"] = 3 /\ result.modifiers["STR"] = -3
    /\ result.stats["DEX"] = 12 /\ result.modifiers["DEX"] = 0
    /\ result.stats["CON"] = 18 /\ result.modifiers["CON"] = 3

-----------------------------------------------------------------------------
\* C4: expandGearTemplate leaves no token: for a template made of literal
\* text and supported tokens, the result is the template with every token
\* occurrence replaced by one of the values its kind can give and the
\* literal text unchanged; it holds no brace; a template without token is
\* returned unchanged; expanding the result again changes nothing.
DecimalsOf(S) == {String(k) : k \in S}

PoultryTexts ==
    {String(k) \o <<" ","c","h","i","c","k","e","n","s">> : k \in 1..6}
    \cup {String(k) \o <<" ","d","u","c","k","s">> : k \in 1..6}
    \cup {String(k) \o <<" ","g","e","e","s","e">> : k \in 1..4}
    \cup {String(k) \o <<" ","s","w","a","n","s">> : k \in 1..4}

Range(seq) == {seq[k] : k \in 1..Len(seq)}

\* What a piece of a template may become.
AllowedFor(piece) ==
    CASE piece = <<"{","2","d","6","}">> -> DecimalsOf(2..12)
      [] piece = <<"{","2","+","1","d","4","*","2","}">> -> DecimalsOf({4, 6, 8, 10})
      [] piece = <<"{","c","r","o","p","}">> -> Range(CROPS)
      [] piece = <<"{","i","n","s","t","r","u","m","e","n","t","}">> -> Range(INSTRUMENTS)
      [] piece = <<"{","a","n","i","m","a","l","_","t","r","a","i","n","e","r","_","g","e","a","r","}">> -> Range(ANIMAL_TRAINER_GEAR)
      [] piece = <<"{","p","o","u","l","t","r","y","}">> -> PoultryTexts
      [] OTHER -> {piece}

RECURSIVE IsExpansionOf(_, _)
IsExpansionOf(text, segments) ==
    IF segments = <<>> THEN text = <<>>
    ELSE \E x \in AllowedFor(Head(segments)) :
            /\ Len(x) <= Len(text)
            /\ SubSeq(text, 1, Len(x)) = x
            /\ IsExpansionOf(SubSeq(text, Len(x) + 1, Len(text)), Tail(segments))

GearExpansionTotal ==
    pc = "return" =>
        /\ \A i \in 1..Len(result) : result[i] \notin {"{", "}"}
        /\ IsExpansionOf(result, args.segments)
        /\ (\A k \in 1..Len(args.segments) : args.segments[k] \in GearLiterals)
                => result = args.template
        /\ expandGearTemplate(result, random).value = result

\* A template with two {crop} tokens has got two different crops.
GearExpansionTotalWitness ==
    /\ pc = "return"
    /\ args.segments = <<<<"{","c","r","o","p","}">>, <<"h","o","e",","," ">>, <<"{","c","r","o","p","}">>>>
    /\ \E a \in Range(CROPS), b \in Range(CROPS) :
        /\ a # b
        /\ result = a \o <<"h","o","e",","," ">> \o b

-----------------------------------------------------------------------------
\* C5: a roll matches the range "a-b" exactly when a <= roll <= b ("5-9":
\* 5 to 9 and nothing else) and the range "a" exactly when roll = a ("42":
\* 42 alone); getOccupation returns the first row of the table whose range
\* contains the roll, with species Human when the row's species column is
\* empty or missing.

\* The ranges of the rows of the occupations table, as numbers.
ExpectedRanges ==
    << <<1, 4>>, <<5, 9>>, <<9, 12>>, <<13, 20>>, <<21, 30>>, <<31, 41>>,
       <<42, 42>>, <<43, 60>>, <<61, 75>>, <<76, 90>>, <<91, 100>> >>

Contains(k, r) == ExpectedRanges[k][1] <= r /\ r <= ExpectedRanges[k][2]

OccupationByRange ==
    LET r == args.rollResult IN
    pc \in {"return", "throw"} =>
        /\ InRange(r, parseRange(<<"5","-","9">>)) <=> (5 <= r /\ r <= 9)
        /\ InRange(r, parseRange(<<"4","2">>)) <=> (r = 42)
        /\ Len(occupationRows) = Len(ExpectedRanges)
        /\ \A k \in 1..Len(occupationRows) :
            RowMatches(occupationRows[k], r) <=> Contains(k, r)
        /\ pc = "return"
        /\ \E k \in 1..Len(ExpectedRanges) :
            /\ Contains(k, r)
            /\ \A j \in 1..(k - 1) : ~Contains(j, r)
            /\ result.name = occupationRows[k][2]
            /\ result.species =
                  IF Len(occupationRows[k]) >= 4 /\ occupationRows[k][4] # <<>>
                  THEN occupationRows[k][4] ELSE <<"H","u","m","a","n">>

\* A roll of 9 is in "5-9" and in "9-12": the first row is returned, and its
\* missing species reads Human.
OccupationByRangeWitness ==
    /\ pc = "return"
    /\ args.rollResult = 9
    /\ result.name = <<"A","n","i","m","a","l"," ","t","r","a","i","n","e","r">>
    /\ result.species = <<"H","u","m","a","n">>

-----------------------------------------------------------------------------
\* C6: parseGear splits a gear string only at top-level commas: a comma at
\* depth 0 (as many "(" as ")" before it) ends the current item, a comma at
\* another depth does not split, every item is trimmed, and the items keep
\* their order; "cage (1 wt), 2 ferrets" gives "cage (1 wt)" and
\* "2 ferrets".  The text after the last split is an item unless it is
\* blank.
DepthAt(s, i) ==
    Cardinality({j \in 1..i : s[j] = "("}) - Cardinality({j \in 1..i : s[j] = ")"})

TopLevelCommas(s) == {i \in 1..Len(s) : s[i] = "," /\ DepthAt(s, i) = 0}

\* The k-th smallest element of a set of numbers.
NthOf(S, k) == CHOOSE x \in S : Cardinality({y \in S : y < x}) = k - 1

\* The text between two positions, without the white space at its ends.
TrimmedBetween(s, from, to) ==
    LET inked == {i \in from..to : s[i] \notin {" ", "\t", "\n"}} IN
    IF inked = {} THEN <<>>
    ELSE SubSeq(s, CHOOSE a \in inked : \A i \in inked : a <= i,
                   CHOOSE b \in inked : \A i \in inked : i <= b)

ExpectedItems(s) ==
    LET cuts == TopLevelCommas(s)
        n == Cardinality(cuts)
        from(k) == IF k = 1 THEN 1 ELSE NthOf(cuts, k - 1) + 1
        to(k) == IF k = n + 1 THEN Len(s) ELSE NthOf(cuts, k) - 1
        items == [k \in 1..(n + 1) |-> TrimmedBetween(s, from(k), to(k))]
    IN  IF items[n + 1] = <<>> THEN SubSeq(items, 1, n) ELSE items

ParseGearTopLevel ==
    pc = "return" => result = ExpectedItems(args.gearStr)

\* "cage (1 wt), 2 ferrets" has given its two items.
ParseGearTopLevelWitness ==
    /\ pc = "return"
    /\ args.gearStr = <<"c","a","g","e"," ","(","1"," ","w","t",")",","," ","2"," ","f","e","r","r","e","t","s">>
    /\ result = <<<<"c","a","g","e"," ","(","1"," ","w","t",")">>, <<"2"," ","f","e","r","r","e","t","s">>>>

-----------------------------------------------------------------------------
\* C7: every generated villager has hp = stats.CON + 4 and
\* load = stats.STR + 4, with CON and STR in 3..18 (so hp and load in
\* 7..22), and damage "d4".
HpAndLoad ==
    pc = "return" =>
        /\ result.stats["CON"] \in 3..18
        /\ result.stats["STR"] \in 3..18
        /\ result.hp = result.stats["CON"] + 4
        /\ result.load = result.stats["STR"] + 4
        /\ result.hp \in 7..22
        /\ result.load \in 7..22
        /\ result.damage = <<"d","4">>

\* The two ends of the range in one villager: CON 18 and STR 3 give hp 22
\* and load 7.
HpAndLoadWitness ==
    /\ pc = "return"
    /\ result.stats["CON"] = 18
    /\ result.stats["STR"] = 3
    /\ result.hp = 22
    /\ result.load = 7

-----------------------------------------------------------------------------
\* C8: heritageMoves depends on the species alone: one move, the text of the
\* species, for Dwarf, Elf and Halfling, and none for Human or any other
\* species; the species it is derived from is the species of the record and
\* the species the name was picked for (the name is in the column of that
\* species).
NameColumns(species) ==
    CASE species = <<"E","l","f">> -> {5}
      [] species = <<"D","w","a","r","f">> -> {6}
      [] species = <<"H","a","l","f","l","i","n","g">> -> {7}
      [] OTHER -> {2, 3, 4}

HeritageBySpecies ==
    \A k \in 1..Len(villagers) :
        LET v == villagers[k] IN
        /\ v.species = <<"D","w","a","r","f">> => v.heritageMoves = <<EtchedInStone>>
        /\ v.species = <<"E","l","f">> => v.heritageMoves = <<TheseElfEyes>>
        /\ v.species = <<"H","a","l","f","l","i","n","g">> => v.heritageMoves = <<Lucky>>
        /\ v.species \notin {<<"D","w","a","r","f">>, <<"E","l","f">>, <<"H","a","l","f","l","i","n","g">>} => v.heritageMoves = <<>>
        /\ \E r \in 1..Len(nameRows), c \in NameColumns(v.species) :
                v.name = nameRows[r][c]

\* A run with three villagers: a Halfling with its move, a villager of a
\* species unknown to the script without any.
HeritageBySpeciesWitness ==
    /\ Len(villagers) = 3
    /\ \E k \in 1..3 :
        /\ villagers[k].species = <<"H","a","l","f","l","i","n","g">>
        /\ villagers[k].heritageMoves = <<Lucky>>
    /\ \E k \in 1..3 :
        /\ villagers[k].species \notin {<<"H","u","m","a","n">>, <<"D","w","a","r","f">>, <<"E","l","f">>, <<"H","a","l","f","l","i","n","g">>}
        /\ villagers[k].heritageMoves = <<>>

-----------------------------------------------------------------------------
\* C9: getBond picks the row by 1d20 and the detail by 1d4 among the columns
\* 1 to 4 of the row (never column 0, the template), and returns the
\* template with the first "..." replaced by the detail and the rest
\* unchanged; "They once saved my ... from ruin" with "farm" gives
\* "They once saved my farm from ruin".
FirstEllipsisReplaced(template, detail, out) ==
    IF \E i \in 1..Len(template) : OccursAt(template, <<".",".",".">>, i)
    THEN \E i \in 1..Len(template) :
            /\ OccursAt(template, <<".",".",".">>, i)
            /\ \A j \in 1..(i - 1) : ~OccursAt(template, <<".",".",".">>, j)
            /\ out = SubSeq(template, 1, i - 1) \o detail
                        \o SubSeq(template, i + 3, Len(template))
    ELSE out = template

BondFirstEllipsis ==
    /\ StringReplace(<<"T","h","e","y"," ","o","n","c","e"," ","s","a","v","e","d"," ","m","y"," ",".",".","."," ","f","r","o","m"," ","r","u","i","n">>, <<".",".",".">>, <<"f","a","r","m">>)
            = <<"T","h","e","y"," ","o","n","c","e"," ","s","a","v","e","d"," ","m","y"," ","f","a","r","m"," ","f","r","o","m"," ","r","u","i","n">>
    /\ pc = "return" =>
        LET row == bondRows[FaceOfDraw(args.draws[1], 20)]
            d == FaceOfDraw(args.draws[2], 4)
        IN  /\ d \in 1..4
            /\ FirstEllipsisReplaced(row[1], row[d + 1], result)
            /\ random.forced = <<>>

\* The template with two "..." has had its first one replaced, not the second.
BondFirstEllipsisWitness ==
    /\ pc = "return"
    /\ result = <<"I"," ","o","w","e"," ","g","o","l","d"," ","t","o"," ",".",".","."," ","k","i","n">>

-----------------------------------------------------------------------------
\* C10: getName first rolls 1d20 for the row.  For Elf, Dwarf and Halfling
\* it returns the column 4, 5, 6 of the row without another roll.  For any
\* other species it rolls 1d2: on 1 it rolls 1d2 again and returns the
\* common column (1 or 2) of that number, otherwise it returns the common
\* column 3; the name is then never one of the columns 4 to 6.
\* (Columns count from 0, as in the script.)
NameBySpecies ==
    pc = "return" =>
        LET row == nameRows[FaceOfDraw(args.draws[1], 20)]
            coin == FaceOfDraw(args.draws[2], 2)
            pick == FaceOfDraw(args.draws[3], 2)
            used == Len(args.draws) - Len(random.forced)
        IN  CASE args.species = <<"E","l","f">> -> result = row[4 + 1] /\ used = 1
              [] args.species = <<"D","w","a","r","f">> -> result = row[5 + 1] /\ used = 1
              [] args.species = <<"H","a","l","f","l","i","n","g">> -> result = row[6 + 1] /\ used = 1
              [] OTHER ->
                    /\ IF coin = 1 THEN result = row[pick + 1] /\ used = 3
                       ELSE result = row[3 + 1] /\ used = 2
                    /\ \A r \in 1..Len(nameRows), c \in 4..6 :
                            result # nameRows[r][c + 1]

\* A Human name picked by the second 1d2, from the common column 2.
NameBySpeciesWitness ==
    /\ pc = "return"
    /\ args.species = <<"H","u","m","a","n">>
    /\ Len(random.forced) = 0
    /\ \E r \in 1..Len(nameRows) : result = nameRows[r][2 + 1]

=============================================================================
